---- MODULE Spec2Model ----
(***************************************************************************)
(* Audio-Pi web backend (src/app/app.py): the volume curve, the wifi scan  *)
(* reducer, the mixer locator and the service / multiroom requests.        *)
(***************************************************************************)
EXTENDS Integers, Sequences, FiniteSets, TLC

VARIABLES
    \* volume curve: two inputs, the function applied and its two outputs
    volA, volB, volOp, outA, outB,
    \* wifi scan: nmcli's output (one split record per line) and the response
    scanOut, scanResp,
    \* mixer locator: the sound hardware, the cache, each caller's position
    \* and locals, and the (card, mixer) pair each caller last read
    alsa, _DETECTED, call, seen,
    \* services: systemd's units, the PCM mixer, each request worker, the last
    \* response sent, and whether the command executor can fail
    units, pcm, wk, resp, faulty

volVars == <<volA, volB, volOp, outA, outB>>
wifiVars == <<scanOut, scanResp>>
mixVars == <<alsa, _DETECTED, call, seen>>
svcVars == <<units, pcm, wk, resp, faulty>>
vars == <<volVars, wifiVars, mixVars, svcVars>>

None == "None"

Max(a, b) == IF a >= b THEN a ELSE b
Min(a, b) == IF a <= b THEN a ELSE b

(***************************************************************************)
(* Python float arithmetic (IEEE-754 binary64, round to nearest, ties to   *)
(* even).  A float is [m, e]: m its 53-bit significand, most significant   *)
(* first, written as a leading limb (1 when normalised) followed by        *)
(* NumLimbs limbs of LimbBits bits each, and the value is m * 2^e.  The    *)
(* curve divides two small positive ints, multiplies the quotient by an    *)
(* int and truncates with int().                                           *)
(***************************************************************************)
LimbBits == 13
NumLimbs == 4
MantissaBits == 1 + NumLimbs * LimbBits

RECURSIVE Pow2(_)
Pow2(n) == IF n <= 0 THEN 1 ELSE 2 * Pow2(n - 1)

LimbBase == Pow2(LimbBits)

FZero == [m |-> [i \in 1..(NumLimbs + 1) |-> 0], e |-> 0]

\* k with b * 2^k <= a < b * 2^(k+1), for a, b >= 1
RECURSIVE FNormExp(_, _)
FNormExp(a, b) ==
    IF a >= 2 * b THEN FNormExp(a, 2 * b) + 1
    ELSE IF a < b THEN FNormExp(2 * a, b) - 1
    ELSE 0

\* n further quotient limbs of r / den (r < den) appended to acc, and the
\* remainder left
RECURSIVE QuotLimbs(_, _, _, _)
QuotLimbs(r, den, n, acc) ==
    IF n = 0 THEN [limbs |-> acc, rem |-> r]
    ELSE QuotLimbs((r * LimbBase) % den, den, n - 1,
                   Append(acc, (r * LimbBase) \div den))

\* m + 1 (the leading limb absorbs the last carry)
LimbsInc(m) ==
    LET ns == {i \in 1..Len(m) : i = 1 \/ m[i] # LimbBase - 1}
        p == CHOOSE i \in ns : \A j \in ns : j <= i
    IN [i \in 1..Len(m) |-> IF i < p THEN m[i] ELSE IF i = p THEN m[i] + 1 ELSE 0]

\* round to nearest, ties to even: half is -1 / 0 / 1 as the discarded part
\* is below / exactly / above half a unit in the last place
FRound(m, e, half) ==
    IF half = 1 \/ (half = 0 /\ m[Len(m)] % 2 = 1)
    THEN LET up == LimbsInc(m) IN
         IF up[1] = 2 THEN [m |-> [i \in 1..Len(m) |-> IF i = 1 THEN 1 ELSE 0], e |-> e + 1]
         ELSE [m |-> up, e |-> e]
    ELSE [m |-> m, e |-> e]

\* int / int (true division), a >= 0, b >= 1
FloatDiv(a, b) ==
    IF a = 0 THEN FZero
    ELSE LET k == FNormExp(a, b)
             num == IF k < 0 THEN a * Pow2(0 - k) ELSE a
             den == IF k > 0 THEN b * Pow2(k) ELSE b
             q == QuotLimbs(num - den, den, NumLimbs, <<1>>)
             half == IF 2 * q.rem > den THEN 1 ELSE IF 2 * q.rem = den THEN 0 ELSE -1
         IN FRound(q.limbs, k - (MantissaBits - 1), half)

\* the exact product m * c, limb i downwards, the leading limb left unreduced
RECURSIVE MulLimbs(_, _, _, _, _)
MulLimbs(m, c, i, carry, acc) ==
    IF i = 1 THEN <<m[1] * c + carry>> \o acc
    ELSE MulLimbs(m, c, i - 1, (m[i] * c + carry) \div LimbBase,
                  <<(m[i] * c + carry) % LimbBase>> \o acc)

RECURSIVE BitLen(_)
BitLen(n) == IF n = 0 THEN 0 ELSE 1 + BitLen(n \div 2)

\* float * int: the int converts exactly (1 <= c < LimbBase), the product is
\* rounded once
FloatMulInt(f, c) ==
    IF f = FZero \/ c = 0 THEN FZero
    ELSE LET p == MulLimbs(f.m, c, Len(f.m), 0, <<>>)
             extra == BitLen(p[1]) - 1
             sh == Pow2(extra)
             dropped == p[Len(p)] % sh
             kept == [i \in 1..Len(p) |->
                         IF i = 1 THEN p[1] \div sh
                         ELSE (p[i - 1] % sh) * (LimbBase \div sh) + p[i] \div sh]
             half == IF extra = 0 \/ 2 * dropped < sh THEN -1
                     ELSE IF 2 * dropped = sh THEN 0 ELSE 1
         IN FRound(kept, f.e + extra, half)

RECURSIVE LimbsToInt(_)
LimbsToInt(m) ==
    IF m = <<>> THEN 0
    ELSE LimbsToInt(SubSeq(m, 1, Len(m) - 1)) * LimbBase + m[Len(m)]

\* int(f) for f >= 0: truncation towards zero
FloatTrunc(f) ==
    IF f.e >= 0 THEN LimbsToInt(f.m) * Pow2(f.e)
    ELSE LET w == (0 - f.e) \div LimbBits
             b == (0 - f.e) % LimbBits
         IN IF w >= Len(f.m) THEN 0
            ELSE LimbsToInt(SubSeq(f.m, 1, Len(f.m) - w)) \div Pow2(b)

(***************************************************************************)
(* Volume curve                                                            *)
(***************************************************************************)
_ui_to_hw(ui) ==
    LET u == Max(0, Min(100, ui)) IN
    IF u = 0 THEN 0
    ELSE 70 + FloatTrunc(FloatMulInt(FloatDiv(u, 100), 30))

\* the offset of the audible range taken one too high
hw_to_ui_off71(hw) ==
    LET h == Max(0, Min(100, hw)) IN
    IF h = 0 THEN 0
    ELSE IF h <= 70 THEN 1
    ELSE FloatTrunc(FloatMulInt(FloatDiv(h - 71, 30), 100))

\* the bottom of the audible range compared with < for <=
hw_to_ui_lt70(hw) ==
    LET h == Max(0, Min(100, hw)) IN
    IF h = 0 THEN 0
    ELSE IF h < 70 THEN 1
    ELSE FloatTrunc(FloatMulInt(FloatDiv(h - 70, 30), 100))

_hw_to_ui(hw) ==
    LET h == Max(0, Min(100, hw)) IN
    IF h = 0 THEN 0
    ELSE IF h <= 70 THEN 1
    ELSE FloatTrunc(FloatMulInt(FloatDiv(h - 70, 30), 100))

\* inputs reach VolOver beyond both ends of the 0..100 scale
VolOver == 2
VolInputs == (0 - VolOver)..(100 + VolOver)

VolIdle ==
    /\ volA = 0 /\ volB = 0 /\ volOp = "init" /\ outA = 0 /\ outB = 0

VolInit ==
    /\ volA \in VolInputs /\ volB \in VolInputs
    /\ volOp = "init" /\ outA = 0 /\ outB = 0

Apply_ui_to_hw ==
    /\ volOp = "init"
    /\ outA' = _ui_to_hw(volA) /\ outB' = _ui_to_hw(volB)
    /\ volOp' = "ui_to_hw"
    /\ UNCHANGED <<volA, volB, wifiVars, mixVars, svcVars>>

Apply_hw_to_ui ==
    /\ volOp = "init"
    /\ outA' = _hw_to_ui(volA) /\ outB' = _hw_to_ui(volB)
    /\ volOp' = "hw_to_ui"
    /\ UNCHANGED <<volA, volB, wifiVars, mixVars, svcVars>>

\* the hardware value written for volA is read back
RoundTrip ==
    /\ volOp = "ui_to_hw"
    /\ outA' = _hw_to_ui(outA) /\ outB' = _hw_to_ui(outB)
    /\ volOp' = "roundtrip"
    /\ UNCHANGED <<volA, volB, wifiVars, mixVars, svcVars>>

(***************************************************************************)
(* Wifi scan reducer                                                       *)
(***************************************************************************)
\* A text field is a sequence of one-character strings.
DigitChars == <<"0", "1", "2", "3", "4", "5", "6", "7", "8", "9">>
IsDigit(c) == \E i \in 1..Len(DigitChars) : DigitChars[i] = c
DigitVal(c) == (CHOOSE i \in 1..Len(DigitChars) : DigitChars[i] = c) - 1

RECURSIVE DigitsVal(_)
DigitsVal(s) ==
    IF s = <<>> THEN 0
    ELSE 10 * DigitsVal(SubSeq(s, 1, Len(s) - 1)) + DigitVal(s[Len(s)])

\* int(text): an optional sign and at least one decimal digit; anything else
\* raises ValueError (ok = FALSE).  The fields here hold no blanks and no
\* underscores, which int() would also take.
ParseInt(s) ==
    LET signed == Len(s) > 0 /\ s[1] \in {"-", "+"}
        body == IF signed THEN Tail(s) ELSE s
        good == Len(body) > 0 /\ \A i \in 1..Len(body) : IsDigit(body[i])
    IN [ok |-> good,
        val |-> IF ~good THEN 0
                ELSE IF signed /\ s[1] = "-" THEN 0 - DigitsVal(body)
                ELSE DigitsVal(body)]

\* try: sig = int(n["signal"]) except: sig = 0
SignalOrZero(n) == IF ParseInt(n.signal).ok THEN ParseInt(n.signal).val ELSE 0

\* the records built from the lines: parts = line.split(":") with at least
\* three fields and a non-empty first one
ParseNetworks(lines) ==
    LET kept == SelectSeq(lines, LAMBDA parts : Len(parts) >= 3 /\ parts[1] # "")
    IN [i \in 1..Len(kept) |->
           [ssid |-> kept[i][1], signal |-> kept[i][2], security |-> kept[i][3]]]

\* the position of ssid among the dict's keys (insertion order), 0 if absent
KeyPos(best, ssid) ==
    IF \E i \in 1..Len(best) : best[i].ssid = ssid
    THEN CHOOSE i \in 1..Len(best) : best[i].ssid = ssid
    ELSE 0

\* the inverted comparison
ReplacesWeaker(sig, cur) == sig < cur

\* sig > int(best[ssid]["signal"])
Replaces(sig, cur) == sig > cur

\* the de-dupe loop from record i on; best is the dict's values in insertion
\* order.  int() of the stored record's signal is outside the try.
RECURSIVE Dedupe(_, _, _)
Dedupe(networks, i, best) ==
    IF i > Len(networks) THEN [raised |-> FALSE, val |-> best]
    ELSE LET n == networks[i]
             pos == KeyPos(best, n.ssid)
         IN IF pos = 0 THEN Dedupe(networks, i + 1, Append(best, n))
            ELSE IF ~ParseInt(best[pos].signal).ok
                 THEN [raised |-> TRUE, val |-> <<>>]
            ELSE IF Replaces(SignalOrZero(n), ParseInt(best[pos].signal).val)
                 THEN Dedupe(networks, i + 1, [best EXCEPT ![pos] = n])
            ELSE Dedupe(networks, i + 1, best)

\* sorted(..., key=int(signal), reverse=True): stable, so a record goes after
\* every record whose key is at least its own
RECURSIVE SortedDesc(_, _, _)
SortedDesc(values, i, acc) ==
    IF i > Len(values) THEN acc
    ELSE LET k == ParseInt(values[i].signal).val
             before == SelectSeq(acc, LAMBDA r : ParseInt(r.signal).val >= k)
             after == SelectSeq(acc, LAMBDA r : ParseInt(r.signal).val < k)
         IN SortedDesc(values, i + 1, before \o <<values[i]>> \o after)

NoScanResp == [done |-> FALSE, fault |-> FALSE, ok |-> FALSE, networks |-> <<>>]

\* the response of GET /api/wifi/scan to nmcli's exit code and output;
\* fault: a ValueError left the handler
wifi_scan(rc, lines) ==
    IF rc # 0 THEN [done |-> TRUE, fault |-> FALSE, ok |-> FALSE, networks |-> <<>>]
    ELSE LET best == Dedupe(ParseNetworks(lines), 1, <<>>) IN
         IF best.raised \/ \E i \in 1..Len(best.val) : ~ParseInt(best.val[i].signal).ok
         THEN [done |-> TRUE, fault |-> TRUE, ok |-> FALSE, networks |-> <<>>]
         ELSE [done |-> TRUE, fault |-> FALSE, ok |-> TRUE,
               networks |-> SortedDesc(best.val, 1, <<>>)]

MaxScanLines == 3
Ssids == {"", "A", "B"}
Signals == {<<"3", "0">>, <<"5", "5">>, <<"7", "0">>, <<"x">>}
\* the lines nmcli can print: full records, and a line with too few fields
ScanLines == {<<s, g, "WPA">> : s \in Ssids, g \in Signals} \cup {<<"A", <<"7", "0">>>>}

RECURSIVE SeqsUpTo(_, _)
SeqsUpTo(S, n) ==
    IF n = 0 THEN {<<>>}
    ELSE LET shorter == SeqsUpTo(S, n - 1)
         IN shorter \cup {Append(q, e) : q \in shorter, e \in S}

RCodes == {0, 1}

WifiIdle == scanOut = <<>> /\ scanResp = NoScanResp

WifiInit == scanOut \in SeqsUpTo(ScanLines, MaxScanLines) /\ scanResp = NoScanResp

WifiScan ==
    /\ ~scanResp.done
    /\ \E rc \in RCodes : scanResp' = wifi_scan(rc, scanOut)
    /\ UNCHANGED <<scanOut, volVars, mixVars, svcVars>>

(***************************************************************************)
(* Mixer locator                                                           *)
(***************************************************************************)
NumCallers == 2
MaxCard == 1
Callers == 1..NumCallers
CardIds == 0..MaxCard

preferred_mixers == <<"PCM", "Headphone", "Master", "Digital">>

\* _DETECTED["card"] is None
NoCard == -1
EmptyCache == [card |-> NoCard, mixer |-> None]

\* A sound card as aplay and amixer show it: present or not, its name that
\* of the on-board headphone card ("Headphones" / "bcm2835") or not, and the
\* names of its simple mixer controls.
AbsentCard == [present |-> FALSE, preferred |-> FALSE, controls |-> {}]

RECURSIVE SortedSeq(_)
SortedSeq(S) ==
    IF S = {} THEN <<>>
    ELSE LET m == CHOOSE c \in S : \A d \in S : c <= d
         IN <<m>> \o SortedSeq(S \ {m})

Range(q) == {q[i] : i \in 1..Len(q)}

\* aplay -l | sort -n | uniq: the card numbers, or [0] when there are none
list_cards(a) ==
    LET cards == SortedSeq({c \in DOMAIN a : a[c].present})
    IN IF cards = <<>> THEN <<0>> ELSE cards

\* amixer -c card scontrols: nothing for a card that is not there
list_mixers(a, card) ==
    IF card \in DOMAIN a /\ a[card].present THEN a[card].controls ELSE {}

\* the cards of cards_info whose name matches, in aplay's order
PreferredCards(a) ==
    SortedSeq({c \in DOMAIN a : a[c].present /\ a[c].preferred})

\* the older enumeration, without the preferred cards first
CandidatesUnordered(pref, cards) == cards

\* preferred_cards once every other card is appended
Candidates(pref, cards) ==
    pref \o SelectSeq(cards, LAMBDA c : c \notin Range(pref))

\* the first name of preferred_mixers among mixers, None if there is none
FirstPreferredMixer(mixers) ==
    IF \E k \in 1..Len(preferred_mixers) : preferred_mixers[k] \in mixers
    THEN preferred_mixers[CHOOSE k \in 1..Len(preferred_mixers) :
             /\ preferred_mixers[k] \in mixers
             /\ \A j \in 1..(k - 1) : preferred_mixers[j] \notin mixers]
    ELSE None

IdleCall == [pc |-> "idle", pref |-> <<>>, cands |-> <<>>, i |-> 0, found |-> None]

\* a request handler calls detect_mixer()
Call(w) ==
    /\ call[w].pc = "idle"
    /\ call' = [call EXCEPT ![w].pc = "check"]
    /\ seen' = [seen EXCEPT ![w] = EmptyCache]
    /\ UNCHANGED <<alsa, _DETECTED, volVars, wifiVars, svcVars>>

\* if _DETECTED["card"] is not None and _DETECTED["mixer"] is not None: return
CheckCache(w) ==
    /\ call[w].pc = "check"
    /\ call' = [call EXCEPT ![w].pc =
                   IF _DETECTED.card # NoCard /\ _DETECTED.mixer # None
                   THEN "return" ELSE "cards_info"]
    /\ UNCHANGED <<alsa, _DETECTED, seen, volVars, wifiVars, svcVars>>

\* cards_info = sh("aplay -l ...") and the loop that picks the preferred cards
CardsInfo(w) ==
    /\ call[w].pc = "cards_info"
    /\ call' = [call EXCEPT ![w].pc = "list_cards", ![w].pref = PreferredCards(alsa)]
    /\ UNCHANGED <<alsa, _DETECTED, seen, volVars, wifiVars, svcVars>>

\* for c in list_cards(): append the cards not yet in preferred_cards
ListCards(w) ==
    /\ call[w].pc = "list_cards"
    /\ call' = [call EXCEPT ![w].pc = "loop", ![w].i = 1,
                            ![w].cands = Candidates(call[w].pref, list_cards(alsa))]
    /\ UNCHANGED <<alsa, _DETECTED, seen, volVars, wifiVars, svcVars>>

\* one turn of "for card in preferred_cards": mixers = list_mixers(card)
LoopCard(w) ==
    /\ call[w].pc = "loop"
    /\ call[w].i <= Len(call[w].cands)
    /\ LET m == FirstPreferredMixer(list_mixers(alsa, call[w].cands[call[w].i]))
       IN call' = IF m # None
                  THEN [call EXCEPT ![w].pc = "set_card", ![w].found = m]
                  ELSE [call EXCEPT ![w].i = call[w].i + 1]
    /\ UNCHANGED <<alsa, _DETECTED, seen, volVars, wifiVars, svcVars>>

\* _DETECTED["card"] = card
SetCard(w) ==
    /\ call[w].pc = "set_card"
    /\ _DETECTED' = [_DETECTED EXCEPT !.card = call[w].cands[call[w].i]]
    /\ call' = [call EXCEPT ![w].pc = "set_mixer"]
    /\ UNCHANGED <<alsa, seen, volVars, wifiVars, svcVars>>

\* the loop found nothing:
\* _DETECTED["card"] = preferred_cards[0] if preferred_cards else 0
Fallback(w) ==
    /\ call[w].pc = "loop"
    /\ call[w].i > Len(call[w].cands)
    /\ _DETECTED' = [_DETECTED EXCEPT !.card =
                       IF call[w].cands # <<>> THEN call[w].cands[1] ELSE 0]
    /\ call' = [call EXCEPT ![w].pc = "set_mixer", ![w].found = "Master"]
    /\ UNCHANGED <<alsa, seen, volVars, wifiVars, svcVars>>

\* _DETECTED["mixer"] = m
SetMixer(w) ==
    /\ call[w].pc = "set_mixer"
    /\ _DETECTED' = [_DETECTED EXCEPT !.mixer = call[w].found]
    /\ call' = [call EXCEPT ![w].pc = "return"]
    /\ UNCHANGED <<alsa, seen, volVars, wifiVars, svcVars>>

\* return _DETECTED: the caller reads det["card"] and det["mixer"]
Return(w) ==
    /\ call[w].pc = "return"
    /\ seen' = [seen EXCEPT ![w] = _DETECTED]
    /\ call' = [call EXCEPT ![w] = IdleCall]
    /\ UNCHANGED <<alsa, _DETECTED, volVars, wifiVars, svcVars>>

ControlSets ==
    SUBSET Range(preferred_mixers) \cup {{"Capture"}, {"Capture", "Digital"}}
CardStates ==
    {AbsentCard} \cup [present : {TRUE}, preferred : BOOLEAN, controls : ControlSets]
\* the cards that come and go while the process runs
HotplugStates ==
    {AbsentCard,
     [present |-> TRUE, preferred |-> FALSE, controls |-> {"PCM"}],
     [present |-> TRUE, preferred |-> TRUE, controls |-> {"Headphone"}]}

\* a sound card is plugged in or removed
HwChange ==
    /\ \E c \in CardIds, st \in HotplugStates :
          /\ st # alsa[c]
          /\ alsa' = [alsa EXCEPT ![c] = st]
    /\ UNCHANGED <<_DETECTED, call, seen, volVars, wifiVars, svcVars>>

MixIdle ==
    /\ alsa = [c \in CardIds |-> AbsentCard]
    /\ _DETECTED = EmptyCache
    /\ call = [w \in Callers |-> IdleCall]
    /\ seen = [w \in Callers |-> EmptyCache]

DetectInit ==
    /\ alsa \in [CardIds -> CardStates]
    /\ _DETECTED = EmptyCache
    /\ call = [w \in Callers |-> IdleCall]
    /\ seen = [w \in Callers |-> EmptyCache]

MixerInit ==
    /\ alsa \in [CardIds -> HotplugStates]
    /\ _DETECTED = EmptyCache
    /\ call = [w \in Callers |-> IdleCall]
    /\ seen = [w \in Callers |-> EmptyCache]

(***************************************************************************)
(* Service registry, multiroom coordinator and the volume endpoint         *)
(***************************************************************************)
NumWorkers == 2
Workers == 1..NumWorkers

valid_actions == {"start", "stop", "restart"}
Modes == {"server", "client", "off"}
mapping ==
    [bluetooth |-> "bluetooth", airplay |-> "shairport-sync", spotify |-> "raspotify",
     snapserver |-> "snapserver", snapclient |-> "snapclient"]
UnitNames == {mapping[n] : n \in DOMAIN mapping}

\* a name outside the table is handed to systemctl as it is
ServiceUnitUnchecked(name) == name

\* unit = mapping.get(name)
ServiceUnit(name) == IF name \in DOMAIN mapping THEN mapping[name] ELSE None

\* systemctl is-active unit
service_status(unit) ==
    IF unit \notin DOMAIN units THEN "unknown"
    ELSE IF units[unit].active THEN "active" ELSE "inactive"

\* systemctl is-enabled unit
service_enabled(unit) ==
    IF unit \notin DOMAIN units THEN "unknown"
    ELSE IF units[unit].enabled THEN "enabled" ELSE "disabled"

\* what a successful systemctl verb does to a unit; enable and disable are
\* issued with --now
UnitAfter(verb, u) ==
    CASE verb = "start" -> [u EXCEPT !.active = TRUE]
      [] verb = "restart" -> [u EXCEPT !.active = TRUE]
      [] verb = "stop" -> [u EXCEPT !.active = FALSE]
      [] verb = "enable" -> [active |-> TRUE, enabled |-> TRUE]
      [] verb = "disable" -> [active |-> FALSE, enabled |-> FALSE]
      [] OTHER -> u

\* the off branch disables snapserver twice
MultiroomCmdsOffOnce(mode) ==
    IF mode = "server"
    THEN <<[verb |-> "enable", unit |-> "snapserver"],
           [verb |-> "disable", unit |-> "snapclient"]>>
    ELSE IF mode = "client"
    THEN <<[verb |-> "enable", unit |-> "snapclient"],
           [verb |-> "disable", unit |-> "snapserver"]>>
    ELSE <<[verb |-> "disable", unit |-> "snapserver"],
           [verb |-> "disable", unit |-> "snapserver"]>>

\* the other unit is disabled before the wanted one is enabled
MultiroomCmdsDisableFirst(mode) ==
    IF mode = "server"
    THEN <<[verb |-> "disable", unit |-> "snapclient"],
           [verb |-> "enable", unit |-> "snapserver"]>>
    ELSE IF mode = "client"
    THEN <<[verb |-> "disable", unit |-> "snapserver"],
           [verb |-> "enable", unit |-> "snapclient"]>>
    ELSE <<[verb |-> "disable", unit |-> "snapserver"],
           [verb |-> "disable", unit |-> "snapclient"]>>

\* the two systemctl calls of api_multiroom, in order
MultiroomCmds(mode) ==
    IF mode = "server"
    THEN <<[verb |-> "enable", unit |-> "snapserver"],
           [verb |-> "disable", unit |-> "snapclient"]>>
    ELSE IF mode = "client"
    THEN <<[verb |-> "enable", unit |-> "snapclient"],
           [verb |-> "disable", unit |-> "snapserver"]>>
    ELSE <<[verb |-> "disable", unit |-> "snapserver"],
           [verb |-> "disable", unit |-> "snapclient"]>>

NoReq == [op |-> "none", name |-> "", action |-> "", mode |-> "", value |-> 0]
IdleWorker ==
    [pc |-> "idle", req |-> NoReq, step |-> 0, ncmd |-> 0, failed |-> FALSE, ok |-> TRUE]
\* code: the HTTP status; ncmd: the commands the request ran; failed: one of
\* the commands it issued exited non-zero
NoResp ==
    [done |-> FALSE, code |-> 0, req |-> NoReq, ok |-> FALSE, status |-> "",
     snapserver |-> "", snapclient |-> "",
     enabled |-> [snapserver |-> "", snapclient |-> ""],
     volume |-> 0, ncmd |-> 0, failed |-> FALSE]

\* raise HTTPException(status_code=400, ...)
Rejected(req) == [NoResp EXCEPT !.done = TRUE, !.code = 400, !.req = req]

\* the systemctl calls a request makes
RequestCmds(req) ==
    IF req.op = "multiroom" THEN MultiroomCmds(req.mode)
    ELSE <<[verb |-> req.action, unit |-> ServiceUnit(req.name)]>>

\* POST /api/multiroom/{mode}, up to its first command
BeginMultiroom(w, mode) ==
    LET req == [NoReq EXCEPT !.op = "multiroom", !.mode = mode] IN
    /\ wk[w].pc = "idle"
    /\ IF mode \notin Modes
       THEN resp' = Rejected(req) /\ wk' = wk
       ELSE /\ resp' = NoResp
            /\ wk' = [wk EXCEPT ![w] = [IdleWorker EXCEPT !.pc = "cmds", !.req = req, !.step = 1]]
    /\ UNCHANGED <<units, pcm, faulty, volVars, wifiVars, mixVars>>

\* POST /api/service/{name}/{action}, up to its command
BeginService(w, name, action) ==
    LET req == [NoReq EXCEPT !.op = "service", !.name = name, !.action = action] IN
    /\ wk[w].pc = "idle"
    /\ IF action \notin valid_actions \/ ServiceUnit(name) = None
       THEN resp' = Rejected(req) /\ wk' = wk
       ELSE /\ resp' = NoResp
            /\ wk' = [wk EXCEPT ![w] = [IdleWorker EXCEPT !.pc = "cmds", !.req = req, !.step = 1]]
    /\ UNCHANGED <<units, pcm, faulty, volVars, wifiVars, mixVars>>

\* systemctl(args): one sudo systemctl call of the request; it can exit
\* non-zero, leaving the unit as it was (an unknown unit always does)
SystemctlStep(w) ==
    /\ wk[w].pc = "cmds"
    /\ LET cmd == RequestCmds(wk[w].req)[wk[w].step]
           last == wk[w].step = Len(RequestCmds(wk[w].req))
       IN \E rc \in RCodes :
            /\ rc # 0 => faulty \/ cmd.unit \notin DOMAIN units
            /\ rc = 0 => cmd.unit \in DOMAIN units
            /\ units' = IF rc = 0
                        THEN [units EXCEPT ![cmd.unit] = UnitAfter(cmd.verb, @)]
                        ELSE units
            /\ wk' = [wk EXCEPT ![w].pc = IF last THEN "read" ELSE "cmds",
                                ![w].step = wk[w].step + 1,
                                ![w].ncmd = wk[w].ncmd + 1,
                                ![w].failed = wk[w].failed \/ rc # 0,
                                ![w].ok = IF wk[w].req.op = "service" THEN rc = 0
                                          ELSE wk[w].ok]
    /\ UNCHANGED <<pcm, resp, faulty, volVars, wifiVars, mixVars>>

\* the return statement: the status queries and the response.  api_multiroom
\* answers "ok": True whatever its calls returned; api_service answers
\* res["ok"].  The queries of one response are taken together: they read the
\* units and change nothing.
Respond(w) ==
    /\ wk[w].pc = "read"
    /\ resp' = IF wk[w].req.op = "multiroom"
               THEN [NoResp EXCEPT !.done = TRUE, !.code = 200, !.req = wk[w].req,
                        !.ok = TRUE,
                        !.snapserver = service_status("snapserver"),
                        !.snapclient = service_status("snapclient"),
                        !.enabled = [snapserver |-> service_enabled("snapserver"),
                                     snapclient |-> service_enabled("snapclient")],
                        !.ncmd = wk[w].ncmd + 4, !.failed = wk[w].failed]
               ELSE [NoResp EXCEPT !.done = TRUE, !.code = 200, !.req = wk[w].req,
                        !.ok = wk[w].ok,
                        !.status = service_status(ServiceUnit(wk[w].req.name)),
                        !.ncmd = wk[w].ncmd + 1, !.failed = wk[w].failed]
    /\ wk' = [wk EXCEPT ![w] = IdleWorker]
    /\ UNCHANGED <<units, pcm, faulty, volVars, wifiVars, mixVars>>

\* POST /api/volume/{value}: set_volume_percent runs amixer and drops its
\* result; the handler answers "ok": True
ApiSetVolume(w, value) ==
    LET ui == Max(0, Min(100, value))
        req == [NoReq EXCEPT !.op = "volume", !.value = value]
    IN /\ wk[w].pc = "idle"
       /\ \E rc \in RCodes :
            /\ rc # 0 => faulty
            /\ pcm' = IF rc # 0 THEN pcm
                      ELSE IF ui = 0 THEN [level |-> 0, muted |-> TRUE]
                      ELSE [level |-> _ui_to_hw(ui), muted |-> FALSE]
            /\ resp' = [NoResp EXCEPT !.done = TRUE, !.code = 200, !.req = req,
                           !.ok = TRUE, !.volume = ui, !.ncmd = 1, !.failed = rc # 0]
       /\ UNCHANGED <<units, wk, faulty, volVars, wifiVars, mixVars>>

ModeInputs == Modes \cup {"party"}
NameInputs == DOMAIN mapping \cup {"unknown-service"}
ActionInputs == valid_actions \cup {"enable"}
VolumeInputs == {-1, 0, 40, 100, 101}

StoppedUnit == [active |-> FALSE, enabled |-> FALSE]
UnitStates == [active : BOOLEAN, enabled : BOOLEAN]
Snap == {"snapserver", "snapclient"}
BothEnabled == units["snapserver"].enabled /\ units["snapclient"].enabled

SvcIdle ==
    /\ units = [u \in UnitNames |-> StoppedUnit]
    /\ pcm = [level |-> 100, muted |-> FALSE]
    /\ wk = [w \in Workers |-> IdleWorker]
    /\ resp = NoResp
    /\ faulty = FALSE

\* one request at a time, from any state of the two snapcast units, with an
\* executor that can fail
SvcInit ==
    /\ units \in {f \in [UnitNames -> UnitStates] :
                     \A u \in UnitNames \ Snap : f[u] = StoppedUnit}
    /\ pcm = [level |-> 100, muted |-> FALSE]
    /\ wk = [w \in Workers |-> IdleWorker]
    /\ resp = NoResp
    /\ faulty = TRUE

\* concurrent multiroom requests whose calls all succeed, from a state where
\* the two units are not both enabled
MultiroomInit ==
    /\ units \in {f \in [UnitNames -> UnitStates] :
                     /\ \A u \in UnitNames \ Snap : f[u] = StoppedUnit
                     /\ ~(f["snapserver"].enabled /\ f["snapclient"].enabled)}
    /\ pcm = [level |-> 100, muted |-> FALSE]
    /\ wk = [w \in Workers |-> IdleWorker]
    /\ resp = NoResp
    /\ faulty = FALSE

(***************************************************************************)
(* Specifications                                                          *)
(***************************************************************************)
VolNext == Apply_ui_to_hw \/ Apply_hw_to_ui \/ RoundTrip
InitVolume == VolInit /\ WifiIdle /\ MixIdle /\ SvcIdle
SpecVolume == InitVolume /\ [][VolNext]_vars

InitWifi == VolIdle /\ WifiInit /\ MixIdle /\ SvcIdle
WifiNext == WifiScan
SpecWifi == InitWifi /\ [][WifiNext]_vars

\* one caller, the hardware fixed
DetectNext ==
    \/ Call(1) \/ CheckCache(1) \/ CardsInfo(1) \/ ListCards(1) \/ LoopCard(1)
    \/ SetCard(1) \/ Fallback(1) \/ SetMixer(1) \/ Return(1)
InitDetect == VolIdle /\ WifiIdle /\ DetectInit /\ SvcIdle
SpecDetect == InitDetect /\ [][DetectNext]_vars

\* the handlers of concurrent requests, and cards that come and go
MixerNext ==
    \/ \E w \in Callers :
          \/ Call(w) \/ CheckCache(w) \/ CardsInfo(w) \/ ListCards(w) \/ LoopCard(w)
          \/ SetCard(w) \/ Fallback(w) \/ SetMixer(w) \/ Return(w)
    \/ HwChange
InitMixer == VolIdle /\ WifiIdle /\ MixerInit /\ SvcIdle
SpecMixer == InitMixer /\ [][MixerNext]_vars

SvcNext ==
    \/ \E mode \in ModeInputs : BeginMultiroom(1, mode)
    \/ \E name \in NameInputs, action \in ActionInputs : BeginService(1, name, action)
    \/ \E value \in VolumeInputs : ApiSetVolume(1, value)
    \/ SystemctlStep(1)
    \/ Respond(1)
InitSvc == VolIdle /\ WifiIdle /\ MixIdle /\ SvcInit
SpecSvc == InitSvc /\ [][SvcNext]_vars

MultiroomNext ==
    \E w \in Workers :
       \/ \E mode \in ModeInputs : BeginMultiroom(w, mode)
       \/ SystemctlStep(w)
       \/ Respond(w)
InitMultiroom == VolIdle /\ WifiIdle /\ MixIdle /\ MultiroomInit
SpecMultiroom == InitMultiroom /\ [][MultiroomNext]_vars

Spec == SpecSvc

(***************************************************************************)
(* Properties                                                              *)
(***************************************************************************)
\* the unit a multiroom mode wants running
WantedOn(mode, unit) ==
    \/ mode = "server" /\ unit = "snapserver"
    \/ mode = "client" /\ unit = "snapclient"

\* C1: a multiroom request that ran alone and whose two systemctl calls both
\* succeeded leaves the unit of its mode enabled and active and the other
\* snapcast unit disabled and inactive (both, for off), whatever they were
\* before, and its response, like a read of the state right after it, reports
\* exactly that.
C1_MultiroomPostcondition ==
    (resp.done /\ resp.code = 200 /\ resp.req.op = "multiroom" /\ ~resp.failed) =>
        \A u \in {"snapserver", "snapclient"} :
            LET on == WantedOn(resp.req.mode, u) IN
            /\ units[u] = [active |-> on, enabled |-> on]
            /\ resp[u] = IF on THEN "active" ELSE "inactive"
            /\ resp.enabled[u] = IF on THEN "enabled" ELSE "disabled"

C1_Witness ==
    /\ resp.done /\ resp.req.op = "multiroom" /\ resp.req.mode = "server"
    /\ ~resp.failed
    /\ resp.snapserver = "active" /\ resp.enabled.snapserver = "enabled"
    /\ resp.snapclient = "inactive" /\ resp.enabled.snapclient = "disabled"

InvalidReq(req) ==
    \/ /\ req.op = "service"
       /\ \/ req.name \notin {"bluetooth", "airplay", "spotify", "snapserver", "snapclient"}
          \/ req.action \notin {"start", "stop", "restart"}
    \/ /\ req.op = "multiroom"
       /\ req.mode \notin {"server", "client", "off"}

\* C2: a service request with an unknown name or action, or a multiroom
\* request with an unknown mode, is answered 400 in the step that receives
\* it: no worker ever runs it, it has invoked the command executor zero
\* times, and no unit changes.
C2_InvalidNeverAttempted ==
    [][/\ \A w \in Workers : wk'[w].pc # "idle" => ~InvalidReq(wk'[w].req)
       /\ (resp'.done /\ InvalidReq(resp'.req)) =>
              /\ resp'.code = 400 /\ resp'.ncmd = 0
              /\ units' = units /\ wk' = wk]_vars

C2_Witness ==
    /\ resp.done /\ resp.code = 400 /\ resp.ncmd = 0
    /\ resp.req.op = "service"
    /\ resp.req.name = "unknown-service" /\ resp.req.action = "start"

\* C3: a request one of whose commands exited non-zero answers ok:false.
C3_FailureReported ==
    (resp.done /\ resp.code = 200 /\ resp.failed) => resp.ok = FALSE

\* C4: writing a UI volume of 0..100 to the hardware scale and reading it
\* back never gives more than was written and at most 3 less, and gives
\* exactly 0 for 0 and 100 for 100.
C4_RoundTrip ==
    (volOp = "roundtrip" /\ volA \in 0..100) =>
        /\ outA <= volA
        /\ volA - outA <= 3
        /\ volA \in {0, 100} => outA = volA

C4_Witness == volOp = "roundtrip" /\ volA = 99 /\ outA = 96

\* C5: over 0..100 both conversions are non-decreasing.
C5_Monotonic ==
    (volOp \in {"ui_to_hw", "hw_to_ui"} /\ volA \in 0..100 /\ volB \in 0..100
        /\ volA <= volB) => outA <= outB

C5_Witness ==
    volOp = "hw_to_ui" /\ volA = 70 /\ volB = 71 /\ outA = 1 /\ outB = 3

InputRecords == {i \in 1..Len(scanOut) : Len(scanOut[i]) >= 3}
AllParseable == \A i \in InputRecords : ParseInt(scanOut[i][2]).ok
InputSsids == {scanOut[i][1] : i \in InputRecords} \ {""}
StrongestOf(ssid) ==
    LET sigs == {ParseInt(scanOut[i][2]).val : i \in {j \in InputRecords : scanOut[j][1] = ssid}}
    IN CHOOSE v \in sigs : \A u \in sigs : u <= v

\* C6: when every record's signal parses, a scan that ran has one entry per
\* distinct non-empty SSID of the records and no other, each with the largest
\* signal seen for its SSID, the entries in descending order of signal.
C6_DedupedRanked ==
    (scanResp.done /\ AllParseable) =>
        /\ ~scanResp.fault
        /\ scanResp.ok =>
             LET nets == scanResp.networks IN
             /\ {nets[k].ssid : k \in 1..Len(nets)} = InputSsids
             /\ Len(nets) = Cardinality(InputSsids)
             /\ \A k \in 1..Len(nets) :
                    ParseInt(nets[k].signal).val = StrongestOf(nets[k].ssid)
             /\ \A k \in 1..(Len(nets) - 1) :
                    ParseInt(nets[k].signal).val >= ParseInt(nets[k + 1].signal).val

C6_Witness ==
    /\ scanOut = <<<<"A", <<"3", "0">>, "WPA">>, <<"B", <<"7", "0">>, "WPA">>,
                   <<"A", <<"5", "5">>, "WPA">>>>
    /\ scanResp.ok
    /\ scanResp.networks =
          <<[ssid |-> "B", signal |-> <<"7", "0">>, security |-> "WPA"],
            [ssid |-> "A", signal |-> <<"5", "5">>, security |-> "WPA"]>>

\* C7: whatever the signal fields hold, a scan never fails, and its list has
\* one entry per SSID in descending order of signal, a signal that does not
\* parse counting as 0.
C7_UnparseableIsZero ==
    scanResp.done =>
        /\ ~scanResp.fault
        /\ scanResp.ok =>
             LET nets == scanResp.networks IN
             /\ {nets[k].ssid : k \in 1..Len(nets)} = InputSsids
             /\ Len(nets) = Cardinality(InputSsids)
             /\ \A k \in 1..(Len(nets) - 1) :
                    SignalOrZero(nets[k]) >= SignalOrZero(nets[k + 1])

\* C8: once a selection is stored in the cache, no step of any call writes
\* the cache again.
C8_SelectionImmutable ==
    [][(_DETECTED.card # NoCard /\ _DETECTED.mixer # None) => _DETECTED' = _DETECTED]_vars

\* The selection rule, stated over the hardware.
Enumerated ==
    IF \E c \in CardIds : alsa[c].present
    THEN {c \in CardIds : alsa[c].present}
    ELSE {0}
IsPreferred(c) == c \in CardIds /\ alsa[c].present /\ alsa[c].preferred
ControlsOf(c) == IF c \in CardIds /\ alsa[c].present THEN alsa[c].controls ELSE {}
ListedControls == <<"PCM", "Headphone", "Master", "Digital">>
Before(c, d) ==
    \/ IsPreferred(c) /\ ~IsPreferred(d)
    \/ IsPreferred(c) = IsPreferred(d) /\ c < d
FirstOf(S) == CHOOSE c \in S : \A d \in S \ {c} : Before(c, d)
Matching == {c \in Enumerated : \E k \in 1..Len(ListedControls) : ListedControls[k] \in ControlsOf(c)}
RuleSelection(fallbackCard) ==
    IF Matching # {}
    THEN LET c == FirstOf(Matching)
             k == CHOOSE k \in 1..Len(ListedControls) :
                     /\ ListedControls[k] \in ControlsOf(c)
                     /\ \A j \in 1..(k - 1) : ListedControls[j] \notin ControlsOf(c)
         IN [card |-> c, mixer |-> ListedControls[k]]
    ELSE [card |-> fallbackCard, mixer |-> "Master"]

\* C9 as stated: what a call on an empty cache returns is the first candidate
\* card (preferred cards first) that has a listed control, with the first
\* listed control it has, and card 0 with 'Master' when no card has one.
C9_RuleFallbackCardZero ==
    \A w \in Callers : seen[w] # EmptyCache => seen[w] = RuleSelection(0)

\* C9, amended: as stated, but when no candidate card has a listed control
\* the result is the first candidate card with 'Master' (card 0 only when it
\* is the first candidate or no card is enumerated).
C9_RuleFallbackFirstCandidate ==
    \A w \in Callers : seen[w] # EmptyCache => seen[w] = RuleSelection(FirstOf(Enumerated))

C9_Witness ==
    /\ seen[1] = [card |-> 1, mixer |-> "Digital"]
    /\ alsa[0].present /\ ~alsa[0].preferred /\ "PCM" \in alsa[0].controls
    /\ alsa[1].preferred

\* C10: with every call succeeding and the two units not both enabled at the
\* start, snapserver and snapclient are never both enabled while no multiroom
\* request is in progress; they are both enabled only while some server or
\* client request has run its enable and not yet its disable.
C10_ExclusiveAtQuiescence ==
    /\ (\A w \in Workers : wk[w].pc = "idle") => ~BothEnabled
    /\ BothEnabled =>
          \E w \in Workers :
             /\ wk[w].pc = "cmds" /\ wk[w].step = 2
             /\ wk[w].req.mode \in {"server", "client"}

C10_Witness ==
    /\ BothEnabled
    /\ \E v, w \in Workers :
          /\ wk[v].pc = "cmds" /\ wk[v].req.mode = "server" /\ wk[v].step = 2
          /\ wk[w].pc = "cmds" /\ wk[w].req.mode = "client" /\ wk[w].step = 2

====
